---- MODULE Spec2Model ----
(***************************************************************************)
(* Model of the document server in src/server.py: the store directory      *)
(* DOCS_DIR, the record writer save_to_document and the retrieval tools    *)
(* check_local_data, list_documents, read_document and search_document.    *)
(*                                                                         *)
(* A text is a sequence of one-character strings.  Fixed fragments of a    *)
(* returned message (a label, a file name, the text of an exception) are   *)
(* single elements of the sequence.  Text files are read and written as    *)
(* Path.read_text / Path.write_text do on a POSIX host: reading turns      *)
(* "\r\n" and "\r" into "\n", writing stores the characters unchanged.     *)
(* For .pdf and .docx files the field data of a directory entry is the     *)
(* text the external library (pypdf, python-docx) extracts.                *)
(***************************************************************************)
EXTENDS Naturals, Sequences, FiniteSets

VARIABLES
    dir,      \* DOCS_DIR: the entries in enumeration (iterdir) order
    prev,     \* dir as it was when the last call started
    call,     \* the last call: [op, arg]
    result,   \* what the last call gave: [kind: "return" | "raise", value]
    results,  \* check_local_data's list `results` when the last call ended
    io,       \* file operations the last call performed, in order
    saved,    \* inputs of the save_to_document calls that reported success
    initial,  \* the target file at start: [exists, data]
    procs     \* concurrent save_to_document calls: [pc, data, existing, result]

vars == <<dir, prev, call, result, results, io, saved, initial, procs>>

----------------------------------------------------------------------------
(* Bounds *)

\* characters given to the record writer: the initial file plus all saved inputs
MaxChars == 4
\* characters of one blank (rejected) input
MaxBlank == 1
\* size of a retrieval: one per file of the store, plus the characters of the
\* files' contents, plus the characters of the query
MaxInput == 8
\* size of a store that is listed or read: one per file plus the characters
\* of the files' contents
MaxListed == 3

----------------------------------------------------------------------------
(* Python str / pathlib primitives *)

\* str.isspace() characters that can be written as TLA+ string escapes
Whitespace == {" ", "\t", "\n", "\r", "\f"}

isspace(c) == c \in Whitespace

RECURSIVE lstrip(_)
lstrip(s) ==
    IF s = <<>> THEN <<>>
    ELSE IF isspace(Head(s)) THEN lstrip(Tail(s)) ELSE s

RECURSIVE rstrip(_)
rstrip(s) ==
    IF s = <<>> THEN <<>>
    ELSE IF isspace(s[Len(s)]) THEN rstrip(SubSeq(s, 1, Len(s) - 1)) ELSE s

\* str.strip()
strip(s) == rstrip(lstrip(s))

\* str.rstrip(chars)
RECURSIVE rstrip_chars(_, _)
rstrip_chars(s, chars) ==
    IF s = <<>> THEN <<>>
    ELSE IF s[Len(s)] \in chars
         THEN rstrip_chars(SubSeq(s, 1, Len(s) - 1), chars)
         ELSE s

\* text-mode read (newline=None): "\r\n" and "\r" become "\n"
RECURSIVE universal_newlines(_)
universal_newlines(s) ==
    IF s = <<>> THEN <<>>
    ELSE IF Head(s) = "\r"
         THEN IF Len(s) >= 2 /\ s[2] = "\n"
              THEN <<"\n">> \o universal_newlines(SubSeq(s, 3, Len(s)))
              ELSE <<"\n">> \o universal_newlines(Tail(s))
         ELSE <<Head(s)>> \o universal_newlines(Tail(s))

\* Path.read_text(encoding="utf-8") of the bytes of an entry
read_text(data) == universal_newlines(data)

\* Path.write_text(text, encoding="utf-8") on POSIX: os.linesep is "\n"
write_bytes(text) == text

----------------------------------------------------------------------------
(* The store directory *)

TARGET == "trial_document.txt"
PHOTOS == "photos"

\* Path.suffix of the names the model uses
suffix(name) ==
    CASE name \in {"a.txt", TARGET} -> ".txt"
      [] name = "b.pdf"             -> ".pdf"
      [] name = "c.docx"            -> ".docx"
      [] name = "d.jpg"             -> ".jpg"
      [] OTHER                      -> ""

SUPPORTED_EXTENSIONS == {".pdf", ".docx", ".txt"}

\* PHOTOS_DIR.mkdir at import: the subdirectory is always there
PhotosEntry ==
    [name |-> PHOTOS, isfile |-> FALSE, data |-> <<>>, corrupt |-> FALSE, readonly |-> FALSE]

\* a regular file: its bytes, whether they fail to decode or parse (corrupt),
\* and whether the process lacks write permission on it (readonly)
FileEntry(name, data, corrupt, readonly) ==
    [name |-> name, isfile |-> TRUE, data |-> data, corrupt |-> corrupt, readonly |-> readonly]

Index(d, name) ==
    IF \E i \in 1..Len(d) : d[i].name = name
    THEN CHOOSE i \in 1..Len(d) : d[i].name = name
    ELSE 0

\* Path.exists()
exists(d, name) == Index(d, name) # 0

InsertAt(d, i, e) == SubSeq(d, 1, i - 1) \o <<e>> \o SubSeq(d, i, Len(d))

\* open(file, "w") inside Path.write_text: an existing file is truncated to
\* no bytes in place; a new, empty file appears at a position of the
\* enumeration the file system chooses (pos)
open_w(d, name, pos) ==
    IF exists(d, name)
    THEN [d EXCEPT ![Index(d, name)].data = <<>>]
    ELSE InsertAt(d, pos, FileEntry(name, <<>>, FALSE, FALSE))

\* the write of a handle opened with "w": the bytes go to offset 0, over
\* whatever the file holds by then; bytes beyond them stay
write_at_start(old, bytes) == bytes \o SubSeq(old, Len(bytes) + 1, Len(old))

\* the write and close inside Path.write_text, on a file that is open
flush(d, name, text) ==
    [d EXCEPT ![Index(d, name)].data = write_at_start(@, write_bytes(text))]

\* Path.write_text run without interruption: open, write, close
write_text(d, name, text, pos) == flush(open_w(d, name, pos), name, text)

----------------------------------------------------------------------------
(* Bounded texts *)

RECURSIVE Texts(_, _)
Texts(chars, n) ==
    IF n = 0 THEN {<<>>}
    ELSE LET shorter == Texts(chars, n - 1)
         IN  shorter \cup {<<c>> \o t : c \in chars, t \in {u \in shorter : Len(u) = n - 1}}

RECURSIVE SumLen(_)
SumLen(ss) == IF ss = <<>> THEN 0 ELSE Len(Head(ss)) + SumLen(Tail(ss))

SaveChars == {"a", " ", "\n", "\r"}

Ret(v) == [kind |-> "return", value |-> v]
Raise(v) == [kind |-> "raise", value |-> v]
NoCall == [op |-> "none", arg |-> <<>>]
NoProcs == <<>>

----------------------------------------------------------------------------
(* save_to_document *)

NO_DATA == <<"No data provided. Please provide information to save.">>
SAVED_OK == <<"Data saved successfully to ", TARGET, ".">>
PERMISSION_DENIED == <<"Permission denied: cannot write to trial_document.txt.">>
FS_ERROR == <<"File system error while saving: ", "<e>">>
UNEXPECTED == <<"Unexpected error while saving: ", "<e>">>

\* a validation that rejects only the empty text
no_data_empty_only(data) == data = <<>>

\* line 243: not data or not data.strip()
no_data(data) == data = <<>> \/ strip(data) = <<>>

\* a merge that trims the existing content on both sides
new_content_trimming(existing, data) ==
    IF strip(existing) # <<>>
    THEN strip(existing) \o <<"\n", "\n">> \o strip(data) \o <<"\n">>
    ELSE strip(data) \o <<"\n">>

\* lines 252-255
new_content(existing, data) ==
    IF strip(existing) # <<>>
    THEN rstrip_chars(existing, {"\n"}) \o <<"\n", "\n">> \o strip(data) \o <<"\n">>
    ELSE strip(data) \o <<"\n">>

\* the bytes of the target file in directory d (<<>> when there is none)
TargetBytes(d) == IF exists(d, TARGET) THEN d[Index(d, TARGET)].data ELSE <<>>

\* characters the writer has been given so far
Used == (IF initial.exists THEN Len(initial.data) ELSE 0) + SumLen(saved)

\* lines 241-264; pos is where the file system lists the file if it is created
save_to_document(data, pos) ==
    /\ prev' = dir
    /\ call' = [op |-> "save_to_document", arg |-> data]
    /\ UNCHANGED <<results, initial, procs>>
    /\ IF no_data(data)
       THEN /\ result' = Ret(NO_DATA)
            /\ io' = <<>>
            /\ UNCHANGED <<dir, saved>>
       ELSE IF exists(dir, TARGET) /\ ~dir[Index(dir, TARGET)].isfile
       THEN \* read_text raises IsADirectoryError: except OSError
            /\ result' = Ret(FS_ERROR)
            /\ io' = <<"exists", "read_text">>
            /\ UNCHANGED <<dir, saved>>
       ELSE IF exists(dir, TARGET) /\ dir[Index(dir, TARGET)].corrupt
       THEN \* read_text raises UnicodeDecodeError: except Exception
            /\ result' = Ret(UNEXPECTED)
            /\ io' = <<"exists", "read_text">>
            /\ UNCHANGED <<dir, saved>>
       ELSE LET existing == IF exists(dir, TARGET)
                            THEN read_text(dir[Index(dir, TARGET)].data)
                            ELSE <<>>
                reads == IF exists(dir, TARGET)
                         THEN <<"exists", "read_text">> ELSE <<"exists">>
            IN  /\ io' = reads \o <<"write_text">>
                /\ IF exists(dir, TARGET) /\ dir[Index(dir, TARGET)].readonly
                   THEN \* write_text raises PermissionError
                        /\ result' = Ret(PERMISSION_DENIED)
                        /\ UNCHANGED <<dir, saved>>
                   ELSE /\ dir' = write_text(dir, TARGET, new_content(existing, data), pos)
                        /\ result' = Ret(SAVED_OK)
                        /\ saved' = Append(saved, data)

SaveToDocument ==
    \E data \in Texts(SaveChars, MaxChars - Used) :
        /\ no_data(data) => Len(data) <= MaxBlank
        /\ \E pos \in (IF no_data(data) \/ exists(dir, TARGET)
                        THEN {1} ELSE 1..(Len(dir) + 1)) :
              save_to_document(data, pos)

\* the target at start: absent, a file with any bytes (writable or not), a file
\* that is not valid UTF-8, or a directory of that name
InitialFiles ==
    {[exists |-> FALSE, isfile |-> FALSE, data |-> <<>>, corrupt |-> FALSE, readonly |-> FALSE]}
    \cup {[exists |-> TRUE, isfile |-> TRUE, data |-> e, corrupt |-> FALSE, readonly |-> ro] :
             e \in Texts(SaveChars, MaxChars - 1), ro \in BOOLEAN}
    \cup {[exists |-> TRUE, isfile |-> TRUE, data |-> <<>>, corrupt |-> TRUE, readonly |-> FALSE],
          [exists |-> TRUE, isfile |-> FALSE, data |-> <<>>, corrupt |-> FALSE, readonly |-> FALSE]}

InitialEntry ==
    [name |-> TARGET, isfile |-> initial.isfile, data |-> initial.data,
     corrupt |-> initial.corrupt, readonly |-> initial.readonly]

InitSave ==
    /\ initial \in InitialFiles
    /\ dir = IF initial.exists THEN <<PhotosEntry, InitialEntry>> ELSE <<PhotosEntry>>
    /\ prev = dir
    /\ call = NoCall
    /\ result = Ret(<<>>)
    /\ results = <<>>
    /\ io = <<>>
    /\ saved = <<>>
    /\ procs = NoProcs

NextSave == SaveToDocument

SpecSave == InitSave /\ [][NextSave]_vars

----------------------------------------------------------------------------
(* Two save_to_document calls running concurrently: each call is the steps  *)
(* between its file operations: exists, the open and each read() inside     *)
(* read_text, and the open and the write inside write_text.                 *)

Procs == {1, 2}

Idle == [pc |-> "idle", data |-> <<>>, found |-> FALSE, buf |-> <<>>, bufsize |-> 0,
         existing |-> <<>>, content |-> <<>>, result |-> <<>>, seen |-> 0, order |-> 0]

\* the read-all of the file object under read_text: the buffer is sized from
\* the file's size when it starts, and grows by at least SMALLCHUNK once full
SMALLCHUNK == 8192

initial_buffersize(size) == IF size > 0 THEN size + 1 ELSE SMALLCHUNK

new_buffersize(currentsize) ==
    LET addend == IF currentsize > 65536 THEN currentsize \div 8 ELSE 256 + currentsize
    IN  currentsize + (IF addend < SMALLCHUNK THEN SMALLCHUNK ELSE addend)

\* one read() of count bytes at offset: the bytes the file holds there now
read_at(bytes, offset, count) ==
    IF Len(bytes) <= offset THEN <<>>
    ELSE SubSeq(bytes, offset + 1,
                IF offset + count < Len(bytes) THEN offset + count ELSE Len(bytes))

\* calls that have written so far
Writes == Cardinality({q \in Procs : procs[q].order # 0})

\* calls that have opened the target for writing so far
Opens == Cardinality({q \in Procs : procs[q].pc = "opened" \/ procs[q].order # 0})

\* characters given to the two calls and the initial file
UsedRace ==
    (IF initial.exists THEN Len(initial.data) ELSE 0)
        + Len(procs[1].data) + Len(procs[2].data)

\* a call that writes the merge of the file as it is when it opens it
content_to_write_fresh(existing, current, data) == new_content(read_text(current), data)

\* lines 252-255: the content written is computed from `existing`, read earlier,
\* whatever the file (current) holds by now
content_to_write(existing, current, data) == new_content(existing, data)

\* lines 241-244: the call arrives and validates its input
Begin(p) ==
    \E data \in Texts(SaveChars, MaxChars - UsedRace) :
        /\ procs[p].pc = "idle"
        /\ no_data(data) => Len(data) <= MaxBlank
        /\ procs' = [procs EXCEPT ![p] =
                        IF no_data(data)
                        THEN [@ EXCEPT !.pc = "done", !.data = data, !.result = NO_DATA]
                        ELSE [@ EXCEPT !.pc = "exists", !.data = data]]
        /\ UNCHANGED <<dir, prev, call, result, results, io, saved, initial>>

\* line 248: file_path.exists()
CheckExists(p) ==
    /\ procs[p].pc = "exists"
    /\ procs' = [procs EXCEPT ![p] =
                    IF exists(dir, TARGET)
                    THEN [@ EXCEPT !.pc = "read", !.found = TRUE]
                    ELSE [@ EXCEPT !.pc = "write", !.seen = Opens]]
    /\ UNCHANGED <<dir, prev, call, result, results, io, saved, initial>>

\* line 249, read_text: the file is opened and the read buffer sized from
\* the size the file has now
StatExisting(p) ==
    /\ procs[p].pc = "read"
    /\ procs' = [procs EXCEPT ![p] =
                    [@ EXCEPT !.pc = "reading", !.buf = <<>>,
                              !.bufsize = initial_buffersize(Len(TargetBytes(dir)))]]
    /\ UNCHANGED <<dir, prev, call, result, results, io, saved, initial>>

\* line 249, read_text: one read() at the offset reached; the read that
\* returns nothing ends the loop, and existing is the decoded buffer
ReadExisting(p) ==
    LET bufsize == IF Len(procs[p].buf) >= procs[p].bufsize
                   THEN new_buffersize(Len(procs[p].buf))
                   ELSE procs[p].bufsize
        got == read_at(TargetBytes(dir), Len(procs[p].buf), bufsize - Len(procs[p].buf))
    IN  /\ procs[p].pc = "reading"
        /\ procs' = [procs EXCEPT ![p] =
                        IF got = <<>>
                        THEN [@ EXCEPT !.pc = "write", !.bufsize = bufsize,
                                       !.existing = read_text(procs[p].buf),
                                       !.seen = Opens]
                        ELSE [@ EXCEPT !.bufsize = bufsize, !.buf = @ \o got]]
        /\ UNCHANGED <<dir, prev, call, result, results, io, saved, initial>>

\* lines 252-257: build new_content, then the open inside write_text, which
\* leaves the target empty
OpenTarget(p) ==
    \E pos \in (IF exists(dir, TARGET) THEN {1} ELSE 1..(Len(dir) + 1)) :
        /\ procs[p].pc = "write"
        /\ dir' = open_w(dir, TARGET, pos)
        /\ procs' = [procs EXCEPT ![p] =
                        [@ EXCEPT !.pc = "opened",
                                  !.content = content_to_write(procs[p].existing,
                                                               TargetBytes(dir),
                                                               procs[p].data)]]
        /\ UNCHANGED <<prev, call, result, results, io, saved, initial>>

\* lines 257-258: the write and close inside write_text, then the confirmation
WriteNew(p) ==
    /\ procs[p].pc = "opened"
    /\ dir' = flush(dir, TARGET, procs[p].content)
    /\ procs' = [procs EXCEPT ![p] =
                    [@ EXCEPT !.pc = "done", !.result = SAVED_OK, !.order = Writes + 1]]
    /\ saved' = Append(saved, procs[p].data)
    /\ UNCHANGED <<prev, call, result, results, io, initial>>

InitRace ==
    /\ initial \in {f \in InitialFiles : f.exists => f.isfile /\ ~f.corrupt /\ ~f.readonly}
    /\ dir = IF initial.exists THEN <<PhotosEntry, InitialEntry>> ELSE <<PhotosEntry>>
    /\ prev = dir
    /\ call = NoCall
    /\ result = Ret(<<>>)
    /\ results = <<>>
    /\ io = <<>>
    /\ saved = <<>>
    /\ procs = [p \in Procs |-> Idle]

NextRace ==
    \E p \in Procs :
        \/ Begin(p) \/ CheckExists(p) \/ StatExisting(p) \/ ReadExisting(p)
        \/ OpenTarget(p) \/ WriteNew(p)

SpecRace == InitRace /\ [][NextRace]_vars

----------------------------------------------------------------------------
(* Retrieval: str primitives *)

\* str.lower() on the letters the model uses
lower_char(c) == CASE c = "A" -> "a" [] c = "B" -> "b" [] OTHER -> c

lower(s) == [i \in 1..Len(s) |-> lower_char(s[i])]

\* str.split(): maximal runs of non-whitespace characters
RECURSIVE split_acc(_, _, _)
split_acc(s, cur, out) ==
    IF s = <<>> THEN (IF cur = <<>> THEN out ELSE Append(out, cur))
    ELSE IF isspace(Head(s))
         THEN split_acc(Tail(s), <<>>, IF cur = <<>> THEN out ELSE Append(out, cur))
         ELSE split_acc(Tail(s), Append(cur, Head(s)), out)

split(s) == split_acc(s, <<>>, <<>>)

LineBreaks == {"\n", "\r", "\f"}

\* str.splitlines(): "\r\n" is one break; no empty last line
RECURSIVE splitlines_acc(_, _, _)
splitlines_acc(s, cur, out) ==
    IF s = <<>> THEN (IF cur = <<>> THEN out ELSE Append(out, cur))
    ELSE IF Head(s) \in LineBreaks
         THEN IF Head(s) = "\r" /\ Len(s) >= 2 /\ s[2] = "\n"
              THEN splitlines_acc(SubSeq(s, 3, Len(s)), <<>>, Append(out, cur))
              ELSE splitlines_acc(Tail(s), <<>>, Append(out, cur))
         ELSE splitlines_acc(Tail(s), Append(cur, Head(s)), out)

splitlines(s) == splitlines_acc(s, <<>>, <<>>)

\* sep.join(parts)
RECURSIVE join(_, _)
join(sep, parts) ==
    IF parts = <<>> THEN <<>>
    ELSE IF Len(parts) = 1 THEN parts[1]
    ELSE parts[1] \o sep \o join(sep, Tail(parts))

\* word in line
RECURSIVE contains(_, _)
contains(word, line) ==
    IF Len(word) > Len(line) THEN FALSE
    ELSE IF SubSeq(line, 1, Len(word)) = word THEN TRUE
    ELSE contains(word, Tail(line))

----------------------------------------------------------------------------
(* Format adapters *)

\* lines 24-29: the pages' texts concatenated, as pypdf extracts them
read_pdf(f) == f.data

\* lines 31-33: the paragraphs' texts joined by "\n", as python-docx gives them
read_docx(f) == f.data

\* lines 35-36
read_txt(f) == read_text(f.data)

\* lines 38-46
_read_file(f) ==
    IF suffix(f.name) = ".pdf" THEN read_pdf(f)
    ELSE IF suffix(f.name) = ".docx" THEN read_docx(f)
    ELSE IF suffix(f.name) = ".txt" THEN read_txt(f)
    ELSE <<>>

\* whether _read_file(f) raises: the reader of a supported format fails on
\* bytes it cannot decode or parse
read_raises(f) == f.corrupt /\ suffix(f.name) \in SUPPORTED_EXTENSIONS

----------------------------------------------------------------------------
(* check_local_data *)

NO_DOCUMENTS ==
    <<"No documents found in local store. You may now answer from your own knowledge.">>
NO_RELEVANT ==
    <<"No relevant information found in local documents. You may now answer from your own knowledge.">>

FromBlock(name, matched_lines) ==
    <<"-- From ", name, " --", "\n">> \o join(<<"\n">>, matched_lines)
FullBlock(name, content) ==
    <<"-- Full content of ", name,
      " (no direct keyword match, review this data carefully) --", "\n">> \o content
ErrorBlock(name) == <<"-- Error reading ", name, ": ", "<e>", " --">>

\* a tokenizer that keeps the one-character words
query_words_all(query) == split(lower(query))

\* lines 145-146
query_words(query) ==
    LET words == split(lower(query))
    IN  SelectSeq(words, LAMBDA w : Len(w) > 1)

\* lines 148-151
doc_files(d) ==
    SelectSeq(d, LAMBDA f : f.isfile /\ suffix(f.name) \in SUPPORTED_EXTENSIONS)

\* a match that compares the line as written
line_matches_exact(line, words) ==
    \E i \in 1..Len(words) : contains(words[i], line)

\* lines 169-170
line_matches(line, words) ==
    LET line_lower == lower(line)
    IN  \E i \in 1..Len(words) : contains(words[i], line_lower)

\* lines 160-184: what one document adds to `results`
doc_block(f, words) ==
    IF read_raises(f) THEN <<ErrorBlock(f.name)>>
    ELSE LET content == _read_file(f)
             matched_lines == SelectSeq(splitlines(content), LAMBDA line : line_matches(line, words))
         IN  IF content = <<>> THEN <<>>
             ELSE IF matched_lines # <<>> THEN <<FromBlock(f.name, matched_lines)>>
             ELSE <<FullBlock(f.name, content)>>

\* a loop that stops at the first document it cannot read
RECURSIVE scan_until_error(_, _)
scan_until_error(files, words) ==
    IF files = <<>> THEN <<>>
    ELSE IF read_raises(Head(files)) THEN doc_block(Head(files), words)
    ELSE doc_block(Head(files), words) \o scan_until_error(Tail(files), words)

\* lines 159-184: the loop over doc_files
RECURSIVE scan(_, _)
scan(files, words) ==
    IF files = <<>> THEN <<>>
    ELSE doc_block(Head(files), words) \o scan(Tail(files), words)

\* lines 142-192
check_local_data(query) ==
    LET words == query_words(query)
        files == doc_files(dir)
        found == scan(files, words)
    IN  /\ io' = <<"iterdir">> \o [i \in 1..Len(files) |-> "read"]
        /\ UNCHANGED <<dir, prev, call, saved, initial, procs>>
        /\ IF files = <<>>
           THEN /\ results' = <<>>
                /\ result' = Ret(NO_DOCUMENTS)
           ELSE /\ results' = found
                /\ result' = IF found # <<>>
                             THEN Ret(join(<<"\n", "\n">>, found))
                             ELSE Ret(NO_RELEVANT)

----------------------------------------------------------------------------
(* list_documents, read_document *)

NO_DOCUMENTS_LISTED == <<"No documents found.">>
FILE_NOT_FOUND == <<"File not found.">>
UNSUPPORTED == <<"Unsupported file format.">>

\* a listing that returns the names as they are
listing_plain(files) == files

\* lines 201-203
listing(files) == IF files = <<>> THEN NO_DOCUMENTS_LISTED ELSE files

\* lines 198-203
list_documents ==
    LET entries == SelectSeq(dir, LAMBDA f : f.isfile)
        files == [i \in 1..Len(entries) |-> entries[i].name]
    IN  /\ io' = <<"iterdir">>
        /\ result' = Ret(listing(files))
        /\ UNCHANGED <<dir, prev, call, results, saved, initial, procs>>

\* line 212
content_or_unsupported(content) == IF content # <<>> THEN content ELSE UNSUPPORTED

\* lines 206-212
read_document(filename) ==
    /\ UNCHANGED <<dir, prev, call, results, saved, initial, procs>>
    /\ IF ~exists(dir, filename)
       THEN /\ io' = <<"exists">>
            /\ result' = Ret(FILE_NOT_FOUND)
       ELSE LET f == dir[Index(dir, filename)]
            IN  /\ io' = <<"exists", "read">>
                /\ result' = IF read_raises(f) THEN Raise(<<"<e>">>)
                             ELSE Ret(content_or_unsupported(_read_file(f)))

----------------------------------------------------------------------------
(* The retrieval tools are functions of the store and of their argument:  *)
(* a behaviour is a store and a request (call), then the tool's run.       *)

DocChars == {"A", "\n"}
QueryChars == {"A", " "}
FileNames == {"a.txt", "b.pdf", "c.docx", "d.jpg"}
RetrievalNames == {"a.txt", "b.pdf", "d.jpg"}
AskedNames == FileNames \cup {PHOTOS, "missing.txt"}

RECURSIVE StoreSize(_)
StoreSize(d) ==
    IF d = <<>> THEN 0
    ELSE (IF Head(d).isfile THEN 1 + Len(Head(d).data) ELSE 0) + StoreSize(Tail(d))

HasName(d, name) == \E i \in 1..Len(d) : d[i].name = name

\* store d with one more file, listed last, within size max: a file of any
\* bytes, or a file of a supported format that its reader fails on
Extensions(d, names, max) ==
    LET room == max - StoreSize(d)
        free == {n \in names : ~HasName(d, n)}
    IN  IF room < 1 THEN {}
        ELSE {Append(d, FileEntry(n, t, FALSE, FALSE)) :
                 n \in free, t \in Texts(DocChars, room - 1)}
             \cup {Append(d, FileEntry(n, <<>>, TRUE, FALSE)) :
                      n \in {m \in free : suffix(m) \in SUPPORTED_EXTENSIONS}}

\* the stores of exactly k files named in names and of size max or less: the
\* photos subdirectory, then the files in any enumeration order
RECURSIVE StoresOf(_, _, _)
StoresOf(k, names, max) ==
    IF k = 0 THEN {<<PhotosEntry>>}
    ELSE UNION {Extensions(d, names, max) : d \in StoresOf(k - 1, names, max)}

Stores(names, max) == UNION {StoresOf(k, names, max) : k \in 0..Cardinality(names)}

Pending == [kind |-> "pending", value |-> <<>>]

QueryRequests(d, max) ==
    {[op |-> "check_local_data", arg |-> q] :
        q \in Texts(QueryChars, max - StoreSize(d))}

FileRequests ==
    {[op |-> "list_documents", arg |-> <<>>]}
    \cup {[op |-> "read_document", arg |-> <<n>>] : n \in AskedNames}

InitCommon ==
    /\ prev = dir
    /\ result = Pending
    /\ results = <<>>
    /\ io = <<>>
    /\ saved = <<>>
    /\ initial = [exists |-> FALSE, isfile |-> FALSE, data |-> <<>>,
                  corrupt |-> FALSE, readonly |-> FALSE]
    /\ procs = NoProcs

CheckLocalData ==
    /\ result = Pending
    /\ call.op = "check_local_data"
    /\ check_local_data(call.arg)

ListDocuments ==
    /\ result = Pending
    /\ call.op = "list_documents"
    /\ list_documents

ReadDocument ==
    /\ result = Pending
    /\ call.op = "read_document"
    /\ read_document(call.arg[1])

\* retrieval over the stores of size MaxInput or less
InitStore ==
    /\ dir \in Stores(RetrievalNames, MaxInput)
    /\ call \in QueryRequests(dir, MaxInput)
    /\ InitCommon

NextStore == CheckLocalData

\* every tool over the stores of size MaxListed or less
InitFiles ==
    /\ dir \in Stores(FileNames, MaxListed)
    /\ call \in QueryRequests(dir, MaxListed) \cup FileRequests
    /\ InitCommon

NextFiles == CheckLocalData \/ ListDocuments \/ ReadDocument

SpecFiles == InitFiles /\ [][NextFiles]_vars

SpecStore == InitStore /\ [][NextStore]_vars

----------------------------------------------------------------------------
(* Vocabulary of the properties, stated without the program's operators *)

NonSpace(s) == {i \in 1..Len(s) : s[i] \notin Whitespace}
Blank(s) == NonSpace(s) = {}
Least(S) == CHOOSE x \in S : \A y \in S : x <= y
Greatest(S) == CHOOSE x \in S : \A y \in S : y <= x

\* s without its leading and trailing whitespace
Trim(s) == IF Blank(s) THEN <<>> ELSE SubSeq(s, Least(NonSpace(s)), Greatest(NonSpace(s)))

\* s without its trailing line feeds
DropTrailingNewlines(s) ==
    SubSeq(s, 1, Greatest({0} \cup {i \in 1..Len(s) : s[i] # "\n"}))

\* s without its trailing line ends of either kind
DropTrailingLineEnds(s) ==
    SubSeq(s, 1, Greatest({0} \cup {i \in 1..Len(s) : s[i] \notin {"\n", "\r"}}))

IsPrefix(s, t) == Len(s) <= Len(t) /\ SubSeq(t, 1, Len(s)) = s

BlankLine == <<"\n", "\n">>

\* the trimmed blocks, one blank line between consecutive blocks
RECURSIVE Blocks(_)
Blocks(ds) ==
    IF ds = <<>> THEN <<>>
    ELSE IF Len(ds) = 1 THEN Trim(ds[1])
    ELSE Trim(ds[1]) \o BlankLine \o Blocks(Tail(ds))

\* the target file's content in directory d (<<>> when there is none)
TargetData(d) ==
    IF \E i \in 1..Len(d) : d[i].name = TARGET
    THEN (CHOOSE e \in {d[i] : i \in 1..Len(d)} : e.name = TARGET).data
    ELSE <<>>

\* sub occurs in s as a contiguous part
Occurs(sub, s) ==
    \E i \in 0..(Len(s) - Len(sub)) : SubSeq(s, i + 1, i + Len(sub)) = sub

SavedNow == call.op = "save_to_document" /\ result = Ret(SAVED_OK)

----------------------------------------------------------------------------
(* Record writer *)

\* C1 (as stated): starting from an absent target file, after the successful
\* saves of the non-blank inputs d1..dn the file is exactly trim(d1), ...,
\* trim(dn), one blank line between consecutive blocks, one trailing newline.
C1_FileIsTrimmedBlocks ==
    (~initial.exists /\ saved # <<>>) =>
        /\ exists(dir, TARGET)
        /\ TargetData(dir) = Blocks(saved) \o <<"\n">>

\* C2 (as stated): a successful save of D over existing content E leaves
\* trim(E), one blank line, trim(D) and a newline when E has a non-whitespace
\* character, and trim(D) plus a newline otherwise.
C2_MergeTrimsExisting ==
    SavedNow =>
        LET E == TargetData(prev)
            D == call.arg
        IN  TargetData(dir) = IF ~Blank(E)
                              THEN Trim(E) \o BlankLine \o Trim(D) \o <<"\n">>
                              ELSE Trim(D) \o <<"\n">>

\* C2 (amended): a successful save of D over existing content E leaves the
\* text of E as read in text mode (CR LF and CR read as LF) with only its
\* trailing line feeds removed, then "\n\n", trim(D) and a newline, when E has
\* a non-whitespace character; and trim(D) plus a newline when the file is
\* absent, empty or whitespace-only.
C2_MergeKeepsExisting ==
    SavedNow =>
        LET E == TargetData(prev)
            D == call.arg
        IN  TargetData(dir) = IF ~Blank(E)
                              THEN DropTrailingNewlines(read_text(E)) \o BlankLine
                                       \o Trim(D) \o <<"\n">>
                              ELSE Trim(D) \o <<"\n">>

\* a successful save over content that has whitespace around its records
C2_Witness ==
    /\ SavedNow
    /\ ~Blank(TargetData(prev))
    /\ Trim(TargetData(prev)) # DropTrailingNewlines(TargetData(prev))
    /\ Trim(call.arg) # call.arg

\* C3 (as stated): the file is append-only; content the file holds before a
\* call is, up to trailing newlines (line ends of either kind), a prefix of
\* the content after the call.
C3_AppendOnly ==
    (call.op = "save_to_document" /\ ~Blank(TargetData(prev))) =>
        IsPrefix(DropTrailingLineEnds(TargetData(prev)), TargetData(dir))

\* C4: a call with empty or whitespace-only data returns the 'No data
\* provided' result, touches no file and leaves the store as it was.
C4_BlankInputIsRejected ==
    (call.op = "save_to_document" /\ Blank(call.arg)) =>
        /\ result = Ret(NO_DATA)
        /\ io = <<>>
        /\ dir = prev

\* a whitespace-only input was rejected while the target file holds records
C4_Witness ==
    /\ call.op = "save_to_document"
    /\ call.arg # <<>> /\ Blank(call.arg)
    /\ saved # <<>>
    /\ result = Ret(NO_DATA)

----------------------------------------------------------------------------
(* Retrieval *)

Done(op) == call.op = op /\ result # Pending

\* the whitespace-delimited words of q
Words(q) ==
    {SubSeq(q, p[1], p[2]) :
        p \in {r \in (1..Len(q)) \X (1..Len(q)) :
                 /\ r[1] <= r[2]
                 /\ \A k \in r[1]..r[2] : q[k] \notin Whitespace
                 /\ r[1] = 1 \/ q[r[1] - 1] \in Whitespace
                 /\ r[2] = Len(q) \/ q[r[2] + 1] \in Whitespace}}

\* the tokens of q: its words of two characters or more
Tokens(q) == {w \in Words(q) : Len(w) >= 2}

SameLetter(c, e) ==
    c = e \/ {c, e} = {"a", "A"} \/ {c, e} = {"b", "B"}

\* t occurs in line, letter case ignored
OccursIgnoringCase(t, line) ==
    \E k \in 0..(Len(line) - Len(t)) :
        \A i \in 1..Len(t) : SameLetter(t[i], line[k + i])

Hit(line, q) == \E t \in Tokens(q) : OccursIgnoringCase(t, line)

\* parts with sep between consecutive parts
RECURSIVE Interleave(_, _)
Interleave(parts, sep) ==
    IF parts = <<>> THEN <<>>
    ELSE IF Len(parts) = 1 THEN parts[1]
    ELSE Interleave(SubSeq(parts, 1, Len(parts) - 1), sep) \o sep \o parts[Len(parts)]

Searchable(f) == f.isfile /\ suffix(f.name) \in {".pdf", ".docx", ".txt"}
Unreadable(f) == Searchable(f) /\ f.corrupt
IsErrorBlock(b) == b[1] = "-- Error reading "

MatchedLines(f, q) == SelectSeq(splitlines(_read_file(f)), LAMBDA line : Hit(line, q))

\* the block the specification gives a readable document with content
BlockOf(f, q) ==
    IF MatchedLines(f, q) # <<>>
    THEN <<"-- From ", f.name, " --", "\n">> \o Interleave(MatchedLines(f, q), <<"\n">>)
    ELSE <<"-- Full content of ", f.name,
           " (no direct keyword match, review this data carefully) --", "\n">>
             \o _read_file(f)

\* the readable documents with content, in enumeration order
DocsWithContent(d) ==
    SelectSeq(d, LAMBDA f : Searchable(f) /\ ~f.corrupt /\ _read_file(f) # <<>>)

\* the documents that give a block: those with content and those that fail
DocsWithBlock(d) ==
    SelectSeq(d, LAMBDA f : Searchable(f) /\ (f.corrupt \/ _read_file(f) # <<>>))

\* C5: check_local_data over a non-empty set of supported documents gives one
\* block per document with content, in enumeration order, joined by a blank
\* line: the lines that contain a token (letter case ignored), each once and
\* in order, or the whole content flagged as no match when no line does.
C5_OneBlockPerDocument ==
    (Done("check_local_data") /\ \E i \in 1..Len(dir) : Searchable(dir[i])) =>
        LET docs == DocsWithContent(dir)
        IN  /\ SelectSeq(results, LAMBDA b : ~IsErrorBlock(b))
                  = [i \in 1..Len(docs) |-> BlockOf(docs[i], call.arg)]
            /\ results # <<>> => result = Ret(Interleave(results, BlankLine))

\* two documents: one gives only its matching line, the next its full content
C5_Witness ==
    /\ Done("check_local_data")
    /\ Len(DocsWithContent(dir)) = 2
    /\ Len(results) = 2
    /\ results[1][1] = "-- From "
    /\ Len(MatchedLines(DocsWithContent(dir)[1], call.arg))
          < Len(splitlines(_read_file(DocsWithContent(dir)[1])))
    /\ results[2][1] = "-- Full content of "

\* C6 (as stated): for an empty store root list_documents returns an empty
\* sequence and check_local_data returns its 'no documents' message.
C6_EmptyStoreListsNothing ==
    (\A i \in 1..Len(dir) : ~dir[i].isfile) =>
        /\ Done("list_documents") => result = Ret(<<>>)
        /\ Done("check_local_data") => result = Ret(NO_DOCUMENTS)

\* C6 (amended): for an empty store root list_documents returns the
\* one-element sequence "No documents found." and check_local_data returns
\* its 'no documents' message for every query.
C6_EmptyStoreListsNotice ==
    (\A i \in 1..Len(dir) : ~dir[i].isfile) =>
        /\ Done("list_documents") => result = Ret(<<"No documents found.">>)
        /\ Done("check_local_data") => result = Ret(NO_DOCUMENTS)

\* list_documents has run on a store without files
C6_Witness ==
    /\ Done("list_documents")
    /\ \A i \in 1..Len(dir) : ~dir[i].isfile
    /\ Len(result.value) = 1

\* C7 (as stated): read_document of a name with no file returns 'File not
\* found.' and changes nothing; for a regular file that can be read,
\* 'Unsupported file format.' is returned exactly when the extension is not
\* one of pdf, docx, txt, and the extracted text is returned otherwise.
C7_ReadClassifies ==
    Done("read_document") =>
        LET name == call.arg[1]
            here == {dir[i] : i \in 1..Len(dir)}
            named == {f \in here : f.name = name}
        IN  /\ named = {} => result = Ret(FILE_NOT_FOUND) /\ dir = prev
            /\ \A f \in named :
                  (f.isfile /\ ~Unreadable(f)) =>
                      /\ result = Ret(UNSUPPORTED) <=> ~Searchable(f)
                      /\ Searchable(f) => result = Ret(_read_file(f))

\* C8: a document that fails to be read gives an error block of its own and
\* the call still returns a text: every document with content has its block,
\* the blocks stand in enumeration order.
C8_ReadFailureIsLocal ==
    (Done("check_local_data") /\ \E i \in 1..Len(dir) : Unreadable(dir[i])) =>
        LET docs == DocsWithBlock(dir)
        IN  /\ result.kind = "return"
            /\ results = [i \in 1..Len(docs) |->
                             IF docs[i].corrupt
                             THEN <<"-- Error reading ", docs[i].name, ": ", "<e>", " --">>
                             ELSE BlockOf(docs[i], call.arg)]
            /\ result.value = Interleave(results, BlankLine)

\* an unreadable document stands before one with content; both have a block
C8_Witness ==
    /\ Done("check_local_data")
    /\ Len(DocsWithBlock(dir)) >= 2
    /\ DocsWithBlock(dir)[1].corrupt
    /\ ~DocsWithBlock(dir)[2].corrupt
    /\ Len(results) = Len(DocsWithBlock(dir))
    /\ IsErrorBlock(results[1]) /\ ~IsErrorBlock(results[2])

\* C9: a query whose words all have one character (or an empty query)
\* matches no line: every document with content comes back whole, flagged as
\* no match, even when its lines contain those characters.
C9_ShortTokensMatchNothing ==
    (Done("check_local_data") /\ \A w \in Words(call.arg) : Len(w) <= 1) =>
        LET docs == DocsWithContent(dir)
        IN  SelectSeq(results, LAMBDA b : ~IsErrorBlock(b))
              = [i \in 1..Len(docs) |->
                   <<"-- Full content of ", docs[i].name,
                     " (no direct keyword match, review this data carefully) --", "\n">>
                       \o _read_file(docs[i])]

\* a one-character query whose character is in a document's line: the
\* document comes back whole
C9_Witness ==
    /\ Done("check_local_data")
    /\ Words(call.arg) # {} /\ \A w \in Words(call.arg) : Len(w) = 1
    /\ \E i \in 1..Len(dir) :
          /\ Searchable(dir[i]) /\ ~dir[i].corrupt
          /\ \E w \in Words(call.arg) : OccursIgnoringCase(w, _read_file(dir[i]))
    /\ results # <<>> /\ \A i \in 1..Len(results) : results[i][1] = "-- Full content of "

----------------------------------------------------------------------------
(* Concurrent saves *)

BothSaved == \A p \in Procs : procs[p].pc = "done" /\ procs[p].result = SAVED_OK
BothReadFirst == \A p \in Procs : procs[p].seen = 0
LastWriter == CHOOSE p \in Procs : procs[p].order = 2
FirstWriter == CHOOSE p \in Procs : procs[p].order = 1

\* what call p alone would have left on the old content
Alone(p) ==
    IF initial.exists /\ ~Blank(initial.data)
    THEN DropTrailingNewlines(read_text(initial.data)) \o BlankLine
             \o Trim(procs[p].data) \o <<"\n">>
    ELSE Trim(procs[p].data) \o <<"\n">>

\* the end of text beyond its first n characters
Beyond(text, n) == [i \in 1..(IF Len(text) > n THEN Len(text) - n ELSE 0) |-> text[n + i]]

\* C10: when two concurrent calls both finished reading the old content before
\* either opened the file for writing and both return the confirmation, the file is
\* what the last writer alone would have left on the old content, followed at
\* most by the end of what the first writer wrote beyond that length: the
\* first writer's record is not kept as a record of its own.
C10_LostUpdate ==
    (BothSaved /\ BothReadFirst) =>
        \/ TargetData(dir) = Alone(LastWriter)
        \/ TargetData(dir) = Alone(LastWriter)
                                 \o Beyond(Alone(FirstWriter), Len(Alone(LastWriter)))

\* both calls confirmed, yet the first writer's record is nowhere in the file
C10_Witness ==
    /\ BothSaved /\ BothReadFirst
    /\ Len(saved) = 2
    /\ ~Occurs(Trim(procs[FirstWriter].data), TargetData(dir))
    /\ Occurs(Trim(procs[LastWriter].data), TargetData(dir))

====
